---- MODULE Spec2Model ----
(***************************************************************************)
(* Model of app.py, the Streamlit taxi fare predictor: the script is run   *)
(* top to bottom on every page interaction (a rerun).  Each rerun reads    *)
(* the widgets into st.session_state, resolves the road route through the  *)
(* 60 s st.cache_data cache around the OSRM request (straight line on any  *)
(* exception), draws the map, and, when the button was clicked, builds the *)
(* query parameters and calls the fare API once.                           *)
(*                                                                         *)
(* Coordinates are integers counting the widgets' step of 0.000001 degree. *)
(* Python exceptions are modelled by results [raised, value, gets], where  *)
(* gets is the number of HTTP GETs the call issued.                        *)
(***************************************************************************)
EXTENDS Integers, Sequences, FiniteSets, TLC

VARIABLES
    session,    \* st.session_state: the six widget values
    clicked,    \* value of st.button("save & predict") in the current rerun
    pc,         \* position of the script: "idle", "map", "predict"
    now,        \* wall clock, seconds
    cache,      \* st.cache_data store of get_route_osrm_cached: key -> [value, stored]
    route_df,   \* rows of route_df of the current rerun (<<>> before make_map_with_route)
    osrmLog,    \* GETs sent to the routing service in the current rerun
    osrmResp,   \* responses of the routing service in the current rerun
    apiLog,     \* GETs (their params) sent to the prediction endpoint in the current rerun
    apiResp,    \* responses of the prediction endpoint in the current rerun
    metric,     \* fares shown by st.metric in the current rerun
    error,      \* TRUE when an uncaught exception ended the current rerun
    osrmSent,   \* routing request -> time it was last sent (history)
    renders     \* number of reruns started

vars == <<session, clicked, pc, now, cache, route_df, osrmLog, osrmResp,
          apiLog, apiResp, metric, error, osrmSent, renders>>

-----------------------------------------------------------------------------
(* Bounds *)

MaxRenders == 2
MaxTime == 90
TickStep == 30

(* Program constants *)

TTL == 60
DefaultPickupLon == -73950655
DefaultPickupLat == 40783282
DefaultDropoffLon == -73984365
DefaultDropoffLat == 40769802
DefaultPassengers == 2
MaxPassengers == 8

-----------------------------------------------------------------------------
(* Input domains *)

DateTimes ==
    { [year |-> 2024, month |-> 1,  day |-> 1, hour |-> 12, minute |-> 0, second |-> 0],
      [year |-> 2031, month |-> 12, day |-> 31, hour |-> 7, minute |-> 45, second |-> 59] }

PickupLons == {DefaultPickupLon, DefaultPickupLon + 1}
PickupLats == {DefaultPickupLat, DefaultPickupLat + 1}
DropoffLons == {DefaultDropoffLon, DefaultDropoffLon + 1}
DropoffLats == {DefaultDropoffLat, DefaultDropoffLat + 1}
Passengers == {DefaultPassengers, MaxPassengers}

\* the domain of each widget key
WidgetValues ==
    [ pickup_datetime   |-> DateTimes,
      pickup_longitude  |-> PickupLons,
      pickup_latitude   |-> PickupLats,
      dropoff_longitude |-> DropoffLons,
      dropoff_latitude  |-> DropoffLats,
      passenger_count   |-> Passengers ]

WidgetKeys == DOMAIN WidgetValues

\* st.session_state after the setdefault loop; pickup_datetime is datetime.now()
defaults(dt) ==
    [ pickup_datetime   |-> dt,
      pickup_longitude  |-> DefaultPickupLon,
      pickup_latitude   |-> DefaultPickupLat,
      dropoff_longitude |-> DefaultDropoffLon,
      dropoff_latitude  |-> DefaultDropoffLat,
      passenger_count   |-> DefaultPassengers ]

-----------------------------------------------------------------------------
(* Python helpers *)

Raise == [raised |-> TRUE, value |-> <<>>, gets |-> 1]
Return(v) == [raised |-> FALSE, value |-> v, gets |-> 1]

Digits == <<"0", "1", "2", "3", "4", "5", "6", "7", "8", "9">>

\* the decimal digits of n, most significant first (what %d prints for n >= 0)
RECURSIVE Decimal(_)
Decimal(n) == IF n < 10 THEN <<Digits[n + 1]>>
              ELSE Decimal(n \div 10) \o <<Digits[(n % 10) + 1]>>

\* %m, %d, %H, %M, %S: the number zero-padded to two digits
TwoDigits(n) == IF n < 10 THEN <<"0">> \o Decimal(n) ELSE Decimal(n)

\* pickup_datetime.strftime("%Y-%m-%d %H:%M:%S"), as the sequence of its characters
strftime(dt) ==
    Decimal(dt.year) \o <<"-">> \o TwoDigits(dt.month) \o <<"-">> \o TwoDigits(dt.day)
    \o <<" ">> \o TwoDigits(dt.hour) \o <<":">> \o TwoDigits(dt.minute)
    \o <<":">> \o TwoDigits(dt.second)

\* mutant of build_params: longitude and latitude of the pickup swapped
build_params_swapped(pickup_datetime, pickup_longitude, pickup_latitude, dropoff_longitude, dropoff_latitude, passenger_count) ==
    [ pickup_datetime   |-> strftime(pickup_datetime),
      pickup_longitude  |-> pickup_latitude,
      pickup_latitude   |-> pickup_longitude,
      dropoff_longitude |-> dropoff_longitude,
      dropoff_latitude  |-> dropoff_latitude,
      passenger_count   |-> passenger_count ]

build_params(pickup_datetime, pickup_longitude, pickup_latitude, dropoff_longitude, dropoff_latitude, passenger_count) ==
    [ pickup_datetime   |-> strftime(pickup_datetime),
      pickup_longitude  |-> pickup_longitude,
      pickup_latitude   |-> pickup_latitude,
      dropoff_longitude |-> dropoff_longitude,
      dropoff_latitude  |-> dropoff_latitude,
      passenger_count   |-> passenger_count ]

-----------------------------------------------------------------------------
(* HTTP: what a server can answer to requests.get(..., timeout=10).        *)
(* err: no response (connection error or timeout); json: the body parses   *)
(* as JSON; data: the parsed body.                                         *)

NoBody == [code |-> "Ok"]
Response(status, data) == [err |-> FALSE, status |-> status, json |-> TRUE, data |-> data]
ConnectionError == [err |-> TRUE, status |-> 0, json |-> FALSE, data |-> NoBody]
NotJson(status) == [err |-> FALSE, status |-> status, json |-> FALSE, data |-> NoBody]

\* Response.raise_for_status(): HTTPError for 4xx and 5xx
raise_for_status(r) == 400 <= r.status /\ r.status < 600

\* obj[key] of a JSON object raises KeyError when the key is absent
HasKey(obj, key) == key \in DOMAIN obj

-----------------------------------------------------------------------------
(* Fare client *)

\* JSON values of the "fare" field: a number, or null
FareNumber(n) == [t |-> "number", v |-> n]
FareNull == [t |-> "null", v |-> 0]

FareResponses ==
    { ConnectionError,
      NotJson(200),
      Response(200, [fare |-> FareNumber(1250)]),
      Response(200, [fare |-> FareNull]),
      Response(200, [detail |-> "error"]),
      Response(300, [fare |-> FareNumber(1250)]),
      Response(422, [detail |-> "error"]),
      Response(500, [fare |-> FareNumber(1250)]) }

\* mutant of call_fare_api: resp.json().get("fare", 0.0)
call_fare_api_default(resp) ==
    IF resp.err THEN Raise
    ELSE IF raise_for_status(resp) THEN Raise
    ELSE IF ~resp.json THEN Raise
    ELSE IF ~HasKey(resp.data, "fare") THEN Return(0)
    ELSE IF resp.data.fare.t # "number" THEN Raise
    ELSE Return(resp.data.fare.v)

\* mutant of call_fare_api: a failed request is sent a second time
call_fare_api_retry(resp) ==
    IF resp.err \/ raise_for_status(resp) THEN [Raise EXCEPT !.gets = 2]
    ELSE IF ~resp.json THEN Raise
    ELSE IF ~HasKey(resp.data, "fare") THEN Raise
    ELSE IF resp.data.fare.t # "number" THEN Raise
    ELSE Return(resp.data.fare.v)

\* call_fare_api after requests.get answered resp; fares are in cents
call_fare_api(resp) ==
    IF resp.err THEN Raise
    ELSE IF raise_for_status(resp) THEN Raise
    ELSE IF ~resp.json THEN Raise
    ELSE IF ~HasKey(resp.data, "fare") THEN Raise
    ELSE IF resp.data.fare.t # "number" THEN Raise
    ELSE Return(resp.data.fare.v)

-----------------------------------------------------------------------------
(* Route resolver *)

PointA == <<-73951000, 40783000>>
PointB == <<-73984000, 40770000>>
PointC == <<-73970000, 40775000>>

Geometries == { <<>>, <<PointA>>, <<PointA, PointB>>, <<PointA, PointC, PointB>> }

RouteBody(g) == [code |-> "Ok", routes |-> <<[geometry |-> [type |-> "LineString", coordinates |-> g]]>>]

RouteResponses ==
    { ConnectionError,
      NotJson(200),
      Response(200, [code |-> "Ok"]),
      Response(200, [code |-> "NoRoute", routes |-> <<>>]),
      Response(200, [code |-> "Ok", routes |-> <<[distance |-> 1]>>]),
      Response(200, [code |-> "Ok", routes |-> <<[geometry |-> [type |-> "LineString"]]>>]),
      Response(300, RouteBody(<<PointA, PointC, PointB>>)),
      Response(500, RouteBody(<<PointA, PointC, PointB>>)) }
    \cup { Response(200, RouteBody(g)) : g \in Geometries }

\* mutant of get_route_osrm: only the two ends of the geometry are kept
get_route_osrm_ends(resp) ==
    IF resp.err THEN Raise
    ELSE IF raise_for_status(resp) THEN Raise
    ELSE IF ~resp.json THEN Raise
    ELSE IF ~HasKey(resp.data, "routes") THEN Raise
    ELSE IF Len(resp.data.routes) = 0 THEN Raise
    ELSE IF ~HasKey(resp.data.routes[1], "geometry") THEN Raise
    ELSE IF ~HasKey(resp.data.routes[1].geometry, "coordinates") THEN Raise
    ELSE LET g == resp.data.routes[1].geometry.coordinates
         IN  Return(IF Len(g) >= 2 THEN <<g[1], g[Len(g)]>> ELSE g)

\* the body of get_route_osrm_cached after requests.get answered resp
get_route_osrm(resp) ==
    IF resp.err THEN Raise
    ELSE IF raise_for_status(resp) THEN Raise
    ELSE IF ~resp.json THEN Raise
    ELSE IF ~HasKey(resp.data, "routes") THEN Raise
    ELSE IF Len(resp.data.routes) = 0 THEN Raise
    ELSE IF ~HasKey(resp.data.routes[1], "geometry") THEN Raise
    ELSE IF ~HasKey(resp.data.routes[1].geometry, "coordinates") THEN Raise
    ELSE Return(resp.data.routes[1].geometry.coordinates)

\* mutant of cache_key: coordinates bucketed to ten steps
cache_key_bucketed(pickup_lon, pickup_lat, dropoff_lon, dropoff_lat) ==
    <<pickup_lon \div 10, pickup_lat \div 10, dropoff_lon \div 10, dropoff_lat \div 10>>

\* st.cache_data keys an entry by the values of the four arguments
cache_key(pickup_lon, pickup_lat, dropoff_lon, dropoff_lat) ==
    <<pickup_lon, pickup_lat, dropoff_lon, dropoff_lat>>

\* mutant of cache_hit: entries never expire
cache_hit_forever(store, key, t) == key \in DOMAIN store

\* st.cache_data(ttl=60): an entry is served while younger than ttl
cache_hit(store, key, t) == key \in DOMAIN store /\ t - store[key].stored < TTL

\* st.cache_data stores the value a call returned; a call that raised stores nothing
cache_store(store, key, t, result) ==
    IF result.raised THEN store
    ELSE [k \in DOMAIN store \cup {key} |->
            IF k = key THEN [value |-> result.value, stored |-> t] ELSE store[k]]

\* mutant of fallback_line: points written [lat, lon]
fallback_line_latlon(pickup_lon, pickup_lat, dropoff_lon, dropoff_lat) ==
    << <<pickup_lat, pickup_lon>>, <<dropoff_lat, dropoff_lon>> >>

\* the except branch of make_map_with_route
fallback_line(pickup_lon, pickup_lat, dropoff_lon, dropoff_lat) ==
    << <<pickup_lon, pickup_lat>>, <<dropoff_lon, dropoff_lat>> >>

\* the request line of get_route_osrm_cached: "lon,lat;lon,lat"
route_request(pickup_lon, pickup_lat, dropoff_lon, dropoff_lat) ==
    [from |-> <<pickup_lon, pickup_lat>>, to |-> <<dropoff_lon, dropoff_lat>>]

\* history of the requests.get of get_route_osrm_cached: when each request last went out
sent(history, request, t) ==
    [r \in DOMAIN history \cup {request} |-> IF r = request THEN t ELSE history[r]]

-----------------------------------------------------------------------------
(* The script *)

Init ==
    /\ session \in {defaults(dt) : dt \in DateTimes}
    /\ clicked = FALSE
    /\ pc = "idle"
    /\ now = 0
    /\ cache = <<>>
    /\ route_df = <<>>
    /\ osrmLog = <<>>
    /\ osrmResp = <<>>
    /\ apiLog = <<>>
    /\ apiResp = <<>>
    /\ metric = <<>>
    /\ error = FALSE
    /\ osrmSent = <<>>
    /\ renders = 0

\* a rerun starts: the page of the previous run is cleared
StartRun ==
    /\ pc = "idle"
    /\ renders < MaxRenders
    /\ pc' = "map"
    /\ renders' = renders + 1
    /\ route_df' = <<>>
    /\ osrmLog' = <<>>
    /\ osrmResp' = <<>>
    /\ apiLog' = <<>>
    /\ apiResp' = <<>>
    /\ metric' = <<>>
    /\ error' = FALSE
    /\ UNCHANGED <<now, cache, osrmSent>>

\* the page is loaded or refreshed: no widget changed, the button is not pressed
Load ==
    /\ StartRun
    /\ clicked' = FALSE
    /\ UNCHANGED session

\* the user edits one input widget, which reruns the script with the new value
EditWidget ==
    /\ StartRun
    /\ clicked' = FALSE
    /\ \E k \in WidgetKeys : \E v \in WidgetValues[k] :
          /\ v # session[k]
          /\ session' = [session EXCEPT ![k] = v]

\* the user clicks "save & predict", which reruns the script with the button TRUE
ClickPredict ==
    /\ StartRun
    /\ clicked' = TRUE
    /\ UNCHANGED session

\* make_map_with_route(...) and st.pydeck_chart(deck)
MakeMap ==
    /\ pc = "map"
    /\ LET plon == session.pickup_longitude
           plat == session.pickup_latitude
           dlon == session.dropoff_longitude
           dlat == session.dropoff_latitude
           key  == cache_key(plon, plat, dlon, dlat)
       IN  IF cache_hit(cache, key, now)
           THEN /\ route_df' = <<[path |-> cache[key].value]>>
                /\ UNCHANGED <<cache, osrmLog, osrmResp, osrmSent>>
           ELSE \E resp \in RouteResponses :
                  LET result == get_route_osrm(resp)
                  IN  /\ osrmLog' = osrmLog \o
                            [i \in 1..result.gets |-> route_request(plon, plat, dlon, dlat)]
                      /\ osrmResp' = Append(osrmResp, resp)
                      /\ osrmSent' = sent(osrmSent, route_request(plon, plat, dlon, dlat), now)
                      /\ cache' = cache_store(cache, key, now, result)
                      /\ route_df' = <<[path |->
                            IF result.raised
                            THEN fallback_line(plon, plat, dlon, dlat)
                            ELSE result.value]>>
    /\ pc' = "predict"
    /\ UNCHANGED <<session, clicked, now, apiLog, apiResp, metric, error, renders>>

\* mutant of Predict: the prediction block runs without the button test
Predict_unconditional ==
    /\ pc = "predict"
    /\ \E resp \in FareResponses :
          LET params == build_params(session.pickup_datetime,
                                     session.pickup_longitude,
                                     session.pickup_latitude,
                                     session.dropoff_longitude,
                                     session.dropoff_latitude,
                                     session.passenger_count)
              result == call_fare_api(resp)
          IN  /\ apiLog' = apiLog \o [i \in 1..result.gets |-> params]
              /\ apiResp' = Append(apiResp, resp)
              /\ error' = result.raised
              /\ metric' = IF result.raised THEN metric ELSE Append(metric, result.value)
    /\ pc' = "idle"
    /\ UNCHANGED <<session, clicked, now, cache, route_df, osrmLog, osrmResp, osrmSent, renders>>

\* if st.button(...): build_params, call_fare_api, st.metric
Predict ==
    /\ pc = "predict"
    /\ IF clicked
       THEN \E resp \in FareResponses :
              LET params == build_params(session.pickup_datetime,
                                         session.pickup_longitude,
                                         session.pickup_latitude,
                                         session.dropoff_longitude,
                                         session.dropoff_latitude,
                                         session.passenger_count)
                  result == call_fare_api(resp)
              IN  /\ apiLog' = apiLog \o [i \in 1..result.gets |-> params]
                  /\ apiResp' = Append(apiResp, resp)
                  /\ error' = result.raised
                  /\ metric' = IF result.raised THEN metric ELSE Append(metric, result.value)
       ELSE UNCHANGED <<apiLog, apiResp, error, metric>>
    /\ pc' = "idle"
    /\ UNCHANGED <<session, clicked, now, cache, route_df, osrmLog, osrmResp, osrmSent, renders>>

\* time passes
Tick ==
    /\ now + TickStep <= MaxTime
    /\ now' = now + TickStep
    /\ UNCHANGED <<session, clicked, pc, cache, route_df, osrmLog, osrmResp,
                   apiLog, apiResp, metric, error, osrmSent, renders>>

Next == Load \/ EditWidget \/ ClickPredict \/ MakeMap \/ Predict \/ Tick

Spec == Init /\ [][Next]_vars

-----------------------------------------------------------------------------
(* Vocabulary of the properties *)

\* the straight line between the pickup and the dropoff of the current inputs
StraightLine ==
    << <<session.pickup_longitude, session.pickup_latitude>>,
       <<session.dropoff_longitude, session.dropoff_latitude>> >>

\* the four coordinates of the current inputs
Quadruple ==
    <<session.pickup_longitude, session.pickup_latitude,
      session.dropoff_longitude, session.dropoff_latitude>>

\* the routing request for the current inputs
CurrentRequest ==
    [from |-> <<session.pickup_longitude, session.pickup_latitude>>,
     to   |-> <<session.dropoff_longitude, session.dropoff_latitude>>]

\* the script step that resolves the route and draws the map
MapStep == pc = "map" /\ pc' = "predict"

\* the map of this rerun is drawn
MapDrawn == pc \in {"predict", "idle"} /\ renders > 0

\* the response carries routes[0].geometry.coordinates
HasGeometry(r) ==
    /\ ~r.err /\ r.json
    /\ "routes" \in DOMAIN r.data
    /\ Len(r.data.routes) > 0
    /\ "geometry" \in DOMAIN r.data.routes[1]
    /\ "coordinates" \in DOMAIN r.data.routes[1].geometry

GeometryOf(r) == r.data.routes[1].geometry.coordinates

Is2xx(r) == r.status \in 200..299
Is4xx5xx(r) == r.status \in 400..599

\* the number a sequence of digit characters denotes
DigitValue(c) == CHOOSE d \in 0..9 : Digits[d + 1] = c
RECURSIVE Number(_)
Number(cs) == IF cs = <<>> THEN 0
              ELSE 10 * Number(SubSeq(cs, 1, Len(cs) - 1)) + DigitValue(cs[Len(cs)])
AllDigits(cs) == \A i \in 1..Len(cs) : \E d \in 0..9 : Digits[d + 1] = cs[i]

\* text is dt written as YYYY-MM-DD HH:MM:SS
IsTimestampOf(text, dt) ==
    /\ Len(text) = 19
    /\ text[5] = "-" /\ text[8] = "-" /\ text[11] = " " /\ text[14] = ":" /\ text[17] = ":"
    /\ \A i \in (1..19) \ {5, 8, 11, 14, 17} : AllDigits(<<text[i]>>)
    /\ Number(SubSeq(text, 1, 4)) = dt.year
    /\ Number(SubSeq(text, 6, 7)) = dt.month
    /\ Number(SubSeq(text, 9, 10)) = dt.day
    /\ Number(SubSeq(text, 12, 13)) = dt.hour
    /\ Number(SubSeq(text, 15, 16)) = dt.minute
    /\ Number(SubSeq(text, 18, 19)) = dt.second

-----------------------------------------------------------------------------
(* C1 *)

\* the routing request failed in one of the ways C1 lists, a non-2xx status among them
RoutingFailedAsClaimed(r) == r.err \/ ~Is2xx(r) \/ ~HasGeometry(r)

\* the same with "4xx or 5xx status" in place of "non-2xx status"
RoutingFailed(r) == r.err \/ Is4xx5xx(r) \/ ~HasGeometry(r)

-----------------------------------------------------------------------------
(* C2 *)

\* C2 as stated: a resolution never sends a request to the routing service less than
\* 60 seconds after a request for the same four coordinates was sent, whether that
\* earlier attempt succeeded or failed.
C2_AsStated ==
    [][(MapStep /\ CurrentRequest \in DOMAIN osrmSent /\ now - osrmSent[CurrentRequest] < TTL)
          => osrmLog' = osrmLog]_vars

-----------------------------------------------------------------------------
(* C3 *)

\* C3: a resolution made more than 60 seconds after the entry of its four coordinates
\* was stored sends one fresh request to the routing service and draws that request's
\* outcome: the returned geometry, or the straight line.
C3_Expiry ==
    [][(MapStep /\ Quadruple \in DOMAIN cache /\ now - cache[Quadruple].stored > TTL)
          => /\ osrmLog' = Append(osrmLog, CurrentRequest)
             /\ Len(osrmResp') = Len(osrmResp) + 1
             /\ LET r == osrmResp'[Len(osrmResp')]
                IN  \/ route_df' = <<[path |-> StraightLine]>>
                    \/ HasGeometry(r) /\ route_df' = <<[path |-> GeometryOf(r)]>>]_vars

\* an expired entry is still in the store, a request went out and failed, and the
\* straight line is drawn instead of the expired route
C3_Witness ==
    /\ pc = "predict"
    /\ Quadruple \in DOMAIN cache /\ now - cache[Quadruple].stored > TTL
    /\ osrmLog = <<CurrentRequest>>
    /\ route_df = <<[path |-> StraightLine]>>
    /\ cache[Quadruple].value # StraightLine

-----------------------------------------------------------------------------
(* C4 *)

\* C4: a resolution whose four coordinates differ from every cached quadruple sends a
\* fresh request for exactly these coordinates and draws that request's outcome,
\* never a route stored for another quadruple.
C4_ExactKey ==
    [][(MapStep /\ Quadruple \notin DOMAIN cache)
          => /\ osrmLog' = Append(osrmLog, CurrentRequest)
             /\ Len(osrmResp') = Len(osrmResp) + 1
             /\ LET r == osrmResp'[Len(osrmResp')]
                IN  \/ route_df' = <<[path |-> StraightLine]>>
                    \/ HasGeometry(r) /\ route_df' = <<[path |-> GeometryOf(r)]>>]_vars

\* the store holds a live route for a quadruple that differs in one coordinate by one
\* step, none for the current one, and a request went out
C4_Witness ==
    /\ pc = "predict"
    /\ Quadruple \notin DOMAIN cache
    /\ osrmLog = <<CurrentRequest>>
    /\ \E k \in DOMAIN cache :
          /\ Cardinality({i \in 1..4 : k[i] # Quadruple[i]}) = 1
          /\ k[4] # Quadruple[4]
          /\ now - cache[k].stored < TTL
          /\ Len(cache[k].value) = 3

-----------------------------------------------------------------------------
(* C5 *)

\* C5: when the routing request succeeds with a geometry of length >= 2, the single
\* path record of the map holds exactly that sequence, and so does the cache entry.
C5_GeometryUnmodified ==
    (MapDrawn /\ Len(osrmResp) = 1 /\ Is2xx(osrmResp[1]) /\ HasGeometry(osrmResp[1])
       /\ Len(GeometryOf(osrmResp[1])) >= 2)
        => /\ route_df = <<[path |-> GeometryOf(osrmResp[1])]>>
           /\ Quadruple \in DOMAIN cache
           /\ cache[Quadruple].value = GeometryOf(osrmResp[1])

C5_Witness ==
    /\ pc = "predict" /\ Len(osrmResp) = 1
    /\ Is2xx(osrmResp[1]) /\ HasGeometry(osrmResp[1])
    /\ GeometryOf(osrmResp[1]) = <<PointA, PointC, PointB>>
    /\ route_df = <<[path |-> <<PointA, PointC, PointB>>]>>

-----------------------------------------------------------------------------
(* C6 *)

\* C6 as stated: the path handed to the map's path layer always has length >= 2.
C6_AsStated ==
    \A i \in 1..Len(route_df) : Len(route_df[i].path) >= 2

-----------------------------------------------------------------------------
(* C7 *)

-----------------------------------------------------------------------------
(* C8 *)

\* C8: one invocation of call_fare_api sends exactly one GET to the prediction
\* endpoint, whether it succeeds or fails, and one route resolution sends at most one
\* GET to the routing endpoint.
C8_NoRetry ==
    /\ Len(apiLog) = Len(apiResp)
    /\ Len(apiLog) <= 1
    /\ Len(osrmLog) = Len(osrmResp)
    /\ Len(osrmLog) <= 1

\* both requests of a rerun failed, and each was sent once
C8_Witness ==
    /\ pc = "idle" /\ clicked /\ error
    /\ Len(apiLog) = 1 /\ Len(osrmLog) = 1
    /\ RoutingFailed(osrmResp[1])

-----------------------------------------------------------------------------
(* C9 *)

\* C9: the parameters sent to the prediction endpoint have exactly the six keys, each
\* numeric field equals the input of the same name, and pickup_datetime is the input
\* timestamp written as YYYY-MM-DD HH:MM:SS.
C9_Params ==
    \A i \in 1..Len(apiLog) :
        LET p == apiLog[i]
        IN  /\ DOMAIN p = {"pickup_datetime", "pickup_longitude", "pickup_latitude",
                           "dropoff_longitude", "dropoff_latitude", "passenger_count"}
            /\ p.pickup_longitude = session.pickup_longitude
            /\ p.pickup_latitude = session.pickup_latitude
            /\ p.dropoff_longitude = session.dropoff_longitude
            /\ p.dropoff_latitude = session.dropoff_latitude
            /\ p.passenger_count = session.passenger_count
            /\ IsTimestampOf(p.pickup_datetime, session.pickup_datetime)

\* parameters were sent for an edited passenger count and a timestamp that needs zero padding
C9_Witness ==
    /\ Len(apiLog) = 1
    /\ apiLog[1].pickup_datetime =
         <<"2", "0", "2", "4", "-", "0", "1", "-", "0", "1", " ",
           "1", "2", ":", "0", "0", ":", "0", "0">>
    /\ apiLog[1].passenger_count = MaxPassengers
    /\ apiLog[1].pickup_longitude = DefaultPickupLon

-----------------------------------------------------------------------------
(* C10 *)

\* C10: a rerun sends a prediction request only when the button was clicked, then
\* exactly one by the end of the script even if the route came from the cache; a rerun
\* without a click sends none; every finished rerun has resolved the route, and did
\* so before any prediction request was sent.
C10_PredictOnClick ==
    /\ Len(apiLog) > 0 => clicked
    /\ (pc = "idle" /\ renders > 0 /\ clicked) => Len(apiLog) = 1
    /\ ~clicked => apiLog = <<>>
    /\ (pc = "idle" /\ renders > 0) => Len(route_df) = 1
    /\ Len(apiLog) > 0 => Len(route_df) = 1

\* a click on inputs whose route was resolved before: the route came from the cache,
\* the prediction request was sent
C10_Witness ==
    /\ pc = "idle" /\ renders = 2 /\ clicked
    /\ osrmLog = <<>> /\ Len(route_df) = 1
    /\ Len(apiLog) = 1 /\ metric # <<>>

====
